---------------------------- MODULE Spec2Model ----------------------------
(***************************************************************************)
(* A model of doaddoad.py: the corpus of stored posts (DoadDoad.state),    *)
(* its persistence (load_state / save_state / _trim_state), the update of  *)
(* the corpus from timelines (update / add_timeline / _add_tweet), the     *)
(* generation pipeline (generate_tweets / _dadadodo_input /                *)
(* _extract_tweets / _fix_rt) and the control flow of main().              *)
(*                                                                         *)
(* Text is a sequence of one-character strings.  The one-character string  *)
(* "\n" is a newline, "\t" a tab and "e'" a non-ASCII letter.              *)
(***************************************************************************)
EXTENDS Integers, Sequences, FiniteSets, TLC

(***************************************************************************)
(* Bounds of the model.                                                    *)
(***************************************************************************)
\* Post ids are 1..MaxId.
MaxId == 3
\* save_state is called with a limit in 0..MaxLimit.
MaxLimit == 3
\* GetUserTimeline returns at most MaxTimeline statuses.
MaxTimeline == 2
\* The generator blobs typed in SpecText have at most MaxBlobLen characters.
MaxBlobLen == 6
\* TWEET_MAXLENGTH is 140 in the source (doaddoad.py line 23).  The wrap and
\* the retweet repair are parametric in it; the model runs them at a width
\* small enough for every blob of MaxBlobLen characters to be enumerated.
TWEET_MAXLENGTH == 4

(***************************************************************************)
(* Characters and character classes.                                       *)
(***************************************************************************)
NonAscii == {"e'"}

\* str.strip() and the str pattern \s: on the ASCII text the pipeline
\* handles these are space, tab, newline (and \r \f \v, which the model's
\* alphabets do not contain).
Whitespace == {" ", "\t", "\n"}

IsSpace(c) == c \in Whitespace

Max(S) == CHOOSE x \in S : \A y \in S : y <= x

Min(S) == CHOOSE x \in S : \A y \in S : x <= y

\* min(a, b)
Smaller(a, b) == IF a <= b THEN a ELSE b

\* s[from..to] as a sequence, empty when from > to.
Slice(s, from, to) == IF from > to THEN << >> ELSE SubSeq(s, from, to)

RECURSIVE Flatten(_)
\* "".join(seqs)
Flatten(seqs) ==
    IF seqs = << >> THEN << >> ELSE Head(seqs) \o Flatten(Tail(seqs))

\* str.strip(): drop leading and trailing whitespace.
Strip(s) ==
    LET keep == {i \in 1..Len(s) : ~IsSpace(s[i])}
    IN  IF keep = {} THEN << >> ELSE SubSeq(s, Min(keep), Max(keep))

\* re.sub("\s+", " ", s): every maximal whitespace run becomes one space.
RECURSIVE CollapseWhitespace(_)
CollapseWhitespace(s) ==
    IF s = << >> THEN << >>
    ELSE IF IsSpace(Head(s))
         THEN IF Len(s) > 1 /\ IsSpace(s[2])
              THEN CollapseWhitespace(Tail(s))
              ELSE <<" ">> \o CollapseWhitespace(Tail(s))
         ELSE <<Head(s)>> \o CollapseWhitespace(Tail(s))

\* str.replace(old, new) for one-character old and new.
Replace(s, old, new) == [i \in 1..Len(s) |-> IF s[i] = old THEN new ELSE s[i]]

(***************************************************************************)
(* textwrap.wrap(text, width), as _extract_tweets calls it: the defaults   *)
(* (drop_whitespace, break_long_words, no indent, no max_lines).  The      *)
(* model's alphabets hold no hyphen, so the hyphen rules of wordsep_re and *)
(* of _handle_long_word never apply and are not modelled.                  *)
(***************************************************************************)
\* TextWrapper._munge_whitespace: every whitespace character becomes a space
\* (the text reaching it holds no tab: line 123 replaced them).
MungeWhitespace(text) ==
    [i \in 1..Len(text) |-> IF IsSpace(text[i]) THEN " " ELSE text[i]]

\* TextWrapper._split: the maximal runs of spaces and of non-spaces, in order.
RECURSIVE SplitChunks(_)
SplitChunks(text) ==
    IF text = << >> THEN << >>
    ELSE LET sp   == text[1] = " "
             ends == {i \in 1..Len(text) :
                        \A j \in 1..i : (text[j] = " ") = sp}
             n    == Max(ends)
         IN  <<SubSeq(text, 1, n)>> \o SplitChunks(Slice(text, n + 1, Len(text)))

\* chunk.strip() == ''
IsBlank(chunk) == Strip(chunk) = << >>

\* sum(map(len, chunks))
RECURSIVE TotalLen(_)
TotalLen(chunks) ==
    IF chunks = << >> THEN 0 ELSE Len(Head(chunks)) + TotalLen(Tail(chunks))

\* TextWrapper._handle_long_word with break_long_words: put as much of the
\* next chunk on the current line as fits.  The pair <<cur_line, chunks>>.
HandleLongWord(chunks, cur_line, cur_len, width) ==
    LET space_left == IF width < 1 THEN 1 ELSE width - cur_len
        chunk      == Head(chunks)
    IN  << Append(cur_line, Slice(chunk, 1, space_left)),
           <<Slice(chunk, space_left + 1, Len(chunk))>> \o Tail(chunks) >>

\* TextWrapper._wrap_chunks: one pass of the outer loop per line.
RECURSIVE WrapChunks(_, _, _)
WrapChunks(chunks, lines, width) ==
    IF chunks = << >> THEN lines
    ELSE LET \* first chunk on a line that is whitespace: dropped, unless no
             \* line was started yet
             c0    == IF IsBlank(Head(chunks)) /\ lines # << >>
                      THEN Tail(chunks) ELSE chunks
             \* the chunks that fit on the line
             n     == Max({k \in 0..Len(c0) :
                             TotalLen(SubSeq(c0, 1, k)) <= width})
             cur   == SubSeq(c0, 1, n)
             rest  == Slice(c0, n + 1, Len(c0))
             long  == rest # << >> /\ Len(Head(rest)) > width
             hlw   == HandleLongWord(rest, cur, TotalLen(cur), width)
             cur2  == IF long THEN hlw[1] ELSE cur
             rest2 == IF long THEN hlw[2] ELSE rest
             \* last chunk on the line that is whitespace: dropped
             cur3  == IF cur2 # << >> /\ IsBlank(cur2[Len(cur2)])
                      THEN SubSeq(cur2, 1, Len(cur2) - 1) ELSE cur2
             out   == IF cur3 # << >> THEN Append(lines, Flatten(cur3))
                      ELSE lines
         IN  WrapChunks(rest2, out, width)

Wrap(text, width) == WrapChunks(SplitChunks(MungeWhitespace(text)), << >>, width)

(***************************************************************************)
(* DoadDoad._fix_rt: the match of rt_find_re against the whole text: a     *)
(* lead (any characters), [Rr][Tt], one or more spaces, an optional "@", a *)
(* run of non-whitespace (who), an optional space and a trail (any         *)
(* characters).  lead is greedy, so the match is the one with              *)
(* the longest lead; after it the other groups are forced: all the spaces, *)
(* "@" when a non-space follows it, the whole run of non-spaces, one space *)
(* when there is one, and the rest (no newline but a final one).           *)
(***************************************************************************)
\* The index after the run of spaces (" +") that starts at i.
SpacesEnd(text, i) ==
    Min({j \in i..(Len(text) + 1) : j = Len(text) + 1 \/ text[j] # " "})

\* The index after the run of non-whitespace ("\S+") that starts at i.
NonSpaceEnd(text, i) ==
    Min({j \in i..(Len(text) + 1) : j = Len(text) + 1 \/ IsSpace(text[j])})

\* The groups of the match whose lead is text[1..i]; ok is FALSE when there
\* is no such match.
RtMatchAt(text, i) ==
    LET n  == Len(text)
        p  == SpacesEnd(text, i + 3)
        w  == IF p + 1 <= n /\ text[p] = "@" /\ ~IsSpace(text[p + 1])
              THEN p + 1 ELSE p
        e  == NonSpaceEnd(text, w)
        t  == IF e <= n /\ text[e] = " " THEN e + 1 ELSE e
        \* $ matches at the end and before a final newline
        m  == IF t <= n /\ text[n] = "\n" THEN n - 1 ELSE n
    IN  IF /\ i + 3 <= n
           /\ \A k \in 1..i : text[k] # "\n"
           /\ text[i + 1] \in {"R", "r"}
           /\ text[i + 2] \in {"T", "t"}
           /\ p > i + 3
           /\ p <= n
           /\ ~IsSpace(text[p])
           /\ \A k \in t..m : text[k] # "\n"
        THEN [ok |-> TRUE, lead |-> Slice(text, 1, i),
              who |-> SubSeq(text, w, e - 1), trail |-> Slice(text, t, m)]
        ELSE [ok |-> FALSE, lead |-> << >>, who |-> << >>, trail |-> << >>]

RtMatches(text) == {i \in 0..Len(text) : RtMatchAt(text, i).ok}

\* Mutant of _fix_rt: the format "RT @%s %s %s", a space before the trail.
_fix_rt_spaced(text) ==
    IF RtMatches(text) = {} THEN text
    ELSE LET rt_match == RtMatchAt(text, Max(RtMatches(text)))
         IN  Strip(<<"R", "T", " ", "@">> \o rt_match.who \o <<" ">>
                   \o rt_match.lead \o <<" ">> \o rt_match.trail)

_fix_rt(text) ==
    IF RtMatches(text) = {} THEN text
    ELSE LET rt_match == RtMatchAt(text, Max(RtMatches(text)))
         IN  Strip(<<"R", "T", " ", "@">> \o rt_match.who \o <<" ">>
                   \o rt_match.lead \o rt_match.trail)

(***************************************************************************)
(* DoadDoad._extract_tweets                                                *)
(***************************************************************************)
\* Lines 123-124: tabs and newlines to spaces, strip, collapse whitespace.
NormalizeBlob(text) ==
    CollapseWhitespace(Strip(Replace(Replace(text, "\t", " "), "\n", " ")))

\* Mutant of WrappedChunks: the text is cut to the width, not wrapped.
WrappedChunks_cut(text) ==
    LET norm == NormalizeBlob(text)
    IN  IF norm = << >> THEN << >>
        ELSE <<SubSeq(norm, 1, Smaller(TWEET_MAXLENGTH, Len(norm)))>>

\* The chunks line 126 iterates over.
WrappedChunks(text) == Wrap(NormalizeBlob(text), TWEET_MAXLENGTH)

\* The sequence the generator yields, fully consumed.
_extract_tweets(text) ==
    LET chunks == WrappedChunks(text)
    IN  [i \in 1..Len(chunks) |-> _fix_rt(chunks[i])]

(***************************************************************************)
(* Posts.  A stored post is the twitter.Status the Tweet object wraps: its *)
(* id and its text.  The corpus (DoadDoad.state) is a function from the    *)
(* ids it holds to their posts.                                            *)
(***************************************************************************)
Ids == 1..MaxId

\* "hi\t e'": a whitespace run and a non-ASCII letter.
TextHi == <<"h", "i", "\t", " ", "e'">>

\* "ok Http://x go": a link.
TextLink == <<"o", "k", " ", "H", "t", "t", "p", ":", "/", "/", "x", " ", "g", "o">>

Texts == {TextHi, TextLink}

Status == [id : Ids, text : Texts]

EmptyState == << >>

Restrict(f, S) == [k \in S |-> f[k]]

\* All sequences over S of length at most n.
BoundedSeq(S, n) == UNION {[1..k -> S] : k \in 0..n}

\* The orders random.shuffle can leave the elements of S in.
Shuffles(S) ==
    {p \in [1..Cardinality(S) -> S] : \A a \in S : \E i \in DOMAIN p : p[i] = a}

\* sorted(S) for a set of integers.
RECURSIVE Sorted(_)
Sorted(S) ==
    IF S = {} THEN << >> ELSE <<Min(S)>> \o Sorted(S \ {Min(S)})

(***************************************************************************)
(* Tweet (Tweet.py, not among the source files): the set of detectable     *)
(* language codes and the language code detected for a post's text.        *)
(***************************************************************************)
language_codes == {"en", "it"}

\* "None" is the code of a post whose language is not detected.
get_language_code(tweet) == IF tweet.text = TextHi THEN "en" ELSE "None"

(***************************************************************************)
(* Python truth values of the option values the code tests.                *)
(***************************************************************************)
\* A language option: "None" is None, "" the empty string.
Languages == {"None", "", "en", "it", "xx"}

LanguageIsTrue(language) == language \notin {"None", ""}

\* A --status text: << >> stands for None and for the empty string.
TextIsTrue(text) == text # << >>

\* bool(generator object): an object without __bool__ and __len__ is true,
\* whatever it will yield.
GeneratorIsTrue(items) == TRUE

(***************************************************************************)
(* The state file.  pickle.dump writes a protocol header, the items of the *)
(* dict and a final STOP opcode; pickle.load needs the whole stream.  The  *)
(* items are written in ascending id order: the order of a dict is not     *)
(* observable through the operations modelled here.                        *)
(***************************************************************************)
NoFile == [exists |-> FALSE, data |-> << >>]

Opcode(op, id, text) == [op |-> op, id |-> id, text |-> text]

Pickle(st) ==
    LET keys == Sorted(DOMAIN st)
    IN  <<Opcode("PROTO", 0, << >>)>>
        \o [i \in 1..Len(keys) |-> Opcode("ITEM", keys[i], st[keys[i]].text)]
        \o <<Opcode("STOP", 0, << >>)>>

\* pickle.load succeeds on a stream that runs to its STOP opcode.
PickleComplete(data) ==
    /\ Len(data) >= 2
    /\ data[1].op = "PROTO"
    /\ data[Len(data)].op = "STOP"

Unpickle(data) ==
    LET items == {i \in DOMAIN data : data[i].op = "ITEM"}
    IN  [k \in {data[i].id : i \in items} |->
            LET i == CHOOSE j \in items : data[j].id = k
            IN  [id |-> k, text |-> data[i].text]]

\* The exception pickle.load raises on an incomplete stream.
PickleError(data) == IF data = << >> THEN "EOFError" ELSE "UnpicklingError"

(***************************************************************************)
(* DoadDoad._trim_state                                                    *)
(***************************************************************************)
\* Mutant of _trim_state: the slice keys[:lim] instead of keys[:-lim].
_trim_state_head(st, lim) ==
    IF lim = 0 THEN st
    ELSE LET keys    == Sorted(DOMAIN st)
             deleted == {keys[i] : i \in 1..Smaller(lim, Len(keys))}
         IN  Restrict(st, DOMAIN st \ deleted)

_trim_state(st, lim) ==
    IF lim = 0 THEN st
    ELSE LET keys    == Sorted(DOMAIN st)
             \* keys[:-lim]
             deleted == {keys[i] : i \in 1..(Len(keys) - lim)}
         IN  Restrict(st, DOMAIN st \ deleted)

(***************************************************************************)
(* DoadDoad._add_tweet and DoadDoad.add_timeline                           *)
(***************************************************************************)
_add_tweet(st, tweet) ==
    [k \in DOMAIN st \cup {tweet.id} |-> IF k = tweet.id THEN tweet ELSE st[k]]

\* Mutant of AddIfNew: the test "tweet.id not in self.state" is missing.
AddAlways(st, tweet) == _add_tweet(st, tweet)

\* Lines 178-179: one iteration of the loop over the timeline.
AddIfNew(st, tweet) ==
    IF tweet.id \notin DOMAIN st THEN _add_tweet(st, tweet) ELSE st

RECURSIVE AddAll(_, _)
AddAll(st, statuses) ==
    IF statuses = << >> THEN st
    ELSE AddAll(AddIfNew(st, Head(statuses)), Tail(statuses))

\* What GetUserTimeline can do: return a timeline or raise TwitterError.
TimelineResults ==
    {[error |-> FALSE, statuses |-> t] : t \in BoundedSeq(Status, MaxTimeline)}
    \cup {[error |-> TRUE, statuses |-> << >>]}

NoTimeline == [error |-> FALSE, statuses |-> << >>]

\* The corpus after add_timeline: a TwitterError is logged and adds nothing.
add_timeline(st, result) ==
    IF result.error THEN st ELSE AddAll(st, result.statuses)

(***************************************************************************)
(* DoadDoad._dadadodo_input                                                *)
(***************************************************************************)
Lower(c) ==
    CASE c = "H" -> "h" [] c = "T" -> "t" [] c = "P" -> "p" [] c = "S" -> "s"
      [] OTHER -> c

\* Whether s[1..Len(prefix)] is prefix, ignoring case.
StartsWith(s, prefix) ==
    /\ Len(s) >= Len(prefix)
    /\ \A i \in 1..Len(prefix) : Lower(s[i]) = prefix[i]

\* The length of the match of "https?://" at the start of s, 0 for none.
LinkPrefix(s) ==
    IF StartsWith(s, <<"h", "t", "t", "p", "s", ":", "/", "/">>) THEN 8
    ELSE IF StartsWith(s, <<"h", "t", "t", "p", ":", "/", "/">>) THEN 7
    ELSE 0

\* Line 101: every link, with the non-whitespace after it, is removed.
RECURSIVE StripLinks(_)
StripLinks(s) ==
    IF s = << >> THEN << >>
    ELSE IF LinkPrefix(s) > 0
         THEN StripLinks(Slice(s, NonSpaceEnd(s, LinkPrefix(s) + 1), Len(s)))
         ELSE <<Head(s)>> \o StripLinks(Tail(s))

IsAscii(c) == c \notin NonAscii

\* Lines 97-101: drop non-ASCII, collapse whitespace runs, remove links.
Sanitize(text) == StripLinks(CollapseWhitespace(SelectSeq(text, IsAscii)))

\* Mutant of Eligible: the filter is ignored.
Eligible_all(tweet, language) == TRUE

\* Line 94: whether the loop yields the post.
Eligible(tweet, language) ==
    ~(LanguageIsTrue(language) /\ language # get_language_code(tweet))

\* The texts the generator yields, walking the ids in their shuffled order.
RECURSIVE _dadadodo_input(_, _, _)
_dadadodo_input(st, ids, language) ==
    IF ids = << >> THEN << >>
    ELSE LET tweet == st[Head(ids)]
             rest  == _dadadodo_input(st, Tail(ids), language)
         IN  IF Eligible(tweet, language)
             THEN <<Sanitize(tweet.text)>> \o rest
             ELSE rest

\* Mutant of LanguageRejected: the language is not validated.
LanguageRejected_never(language) == FALSE

\* Line 78: whether generate_tweets raises DoadDoadError.
LanguageRejected(language) ==
    LanguageIsTrue(language) /\ language \notin language_codes

\* What the dadadodo binary can print: nothing, whitespace only, or text.
Blobs ==
    { << >>, <<"\n">>, <<"a", "b", "\t", "R", "t", " ", "c", "\n">> }

\* The --status texts of the model: none, or "yo".
UserTweets == { << >>, <<"y", "o">> }

(***************************************************************************)
(* The state of one run of main() and of the state file, which outlives    *)
(* the runs.                                                               *)
(***************************************************************************)
VARIABLES
    pc,           \* the position of main(), or of the text pipeline
    dry_run,      \* opts.dry_run
    state,        \* DoadDoad.state, the corpus in memory
    file,         \* the state file: whether it exists and its content
    pre,          \* the corpus before the step that ran last
    snapshot,     \* in save_state: the state file when it was entered
    timeline,     \* in add_timeline: what GetUserTimeline did
    limit,        \* in save_state: its limit
    language,     \* the language generate_tweets was called with
    usertweet,    \* opts.usertweet
    shuffled_ids, \* _dadadodo_input's shuffled_ids
    input,        \* the texts _dadadodo_input yielded
    blob,         \* the output of dadadodo
    chunks,       \* the lines textwrap.wrap returned in _extract_tweets
    tweets,       \* what the generator of _extract_tweets yields
    tweet,        \* main's tweet, the text to post; the result of _fix_rt
    posted,       \* the texts PostUpdate accepted in this run
    calls,        \* the methods and services called in this run
    exc,          \* the exception that ended the run, "" for none
    error_log     \* the messages of log.error in this run

vars == <<pc, dry_run, state, file, pre, snapshot, timeline, limit, language,
          usertweet, shuffled_ids, input, blob, chunks, tweets, tweet, posted,
          calls, exc, error_log>>

\* Everything but pc, dry_run and file, as a fresh process has it.
FreshRun ==
    /\ state = EmptyState
    /\ pre = EmptyState
    /\ snapshot = NoFile
    /\ timeline = NoTimeline
    /\ limit = 0
    /\ language = "None"
    /\ usertweet = << >>
    /\ shuffled_ids = << >>
    /\ input = << >>
    /\ blob = << >>
    /\ chunks = << >>
    /\ tweets = << >>
    /\ tweet = << >>
    /\ posted = << >>
    /\ calls = {}
    /\ exc = ""
    /\ error_log = << >>

Init ==
    /\ pc = "start"
    /\ dry_run = FALSE
    /\ file = NoFile
    /\ FreshRun

generation == <<language, usertweet, shuffled_ids, input, blob, chunks, tweets,
                tweet>>

corpus == <<state, pre, timeline, limit>>

\* The run ends with exception e.
Raise(e) == pc' = "raised" /\ exc' = e

(***************************************************************************)
(* main(), lines 280-301: the options are parsed, DoadDoad is constructed  *)
(* (it raises ValueError when the dadadodo binary is missing) and          *)
(* load_state reads the state file.                                        *)
(***************************************************************************)
Construct ==
    /\ pc = "start"
    /\ \E d \in BOOLEAN, found \in BOOLEAN :
          /\ dry_run' = d
          /\ IF found THEN pc' = "load" /\ exc' = exc ELSE Raise("ValueError")
    /\ UNCHANGED <<corpus, generation, file, snapshot, posted, calls, error_log>>

load_state ==
    /\ pc = "load"
    /\ IF ~file.exists
       THEN pc' = "refresh" /\ UNCHANGED <<state, exc>>
       ELSE IF PickleComplete(file.data)
            THEN pc' = "refresh" /\ state' = Unpickle(file.data) /\ exc' = exc
            ELSE Raise(PickleError(file.data)) /\ state' = state
    /\ calls' = calls \cup {"load_state"}
    /\ UNCHANGED <<dry_run, file, pre, snapshot, timeline, limit, generation,
                   posted, error_log>>

(***************************************************************************)
(* main(), lines 305-312: unless --dry-run, a missing or stale state file  *)
(* is refreshed: update() and save_state().                                *)
(***************************************************************************)
\* Mutant of ShouldRefresh: --dry-run is not looked at.
ShouldRefresh_wet(stale) == ~file.exists \/ stale

\* stale: whether the file's mtime is state_refresh seconds old.
ShouldRefresh(stale) == ~dry_run /\ (~file.exists \/ stale)

RefreshCheck ==
    /\ pc = "refresh"
    /\ \E stale \in BOOLEAN :
          pc' = IF ShouldRefresh(stale) THEN "followback" ELSE "tweet"
    /\ UNCHANGED <<dry_run, corpus, generation, file, snapshot, posted, calls,
                   exc, error_log>>

\* update(), lines 157-164: _followback follows the followers not yet
\* followed, then the followers are fetched.  A TwitterError of GetFollowers
\* or GetFriends is not caught.
Followback ==
    /\ pc = "followback"
    /\ \E unfollowed \in BOOLEAN, fails \in BOOLEAN :
          IF fails
          THEN /\ Raise("TwitterError")
               /\ calls' = calls \cup {"update", "GetFollowers"}
          ELSE /\ pc' = "update"
               /\ exc' = exc
               /\ calls' = calls \cup {"update", "GetFollowers", "GetFriends"}
                             \cup (IF unfollowed THEN {"CreateFriendship"} ELSE {})
    /\ UNCHANGED <<dry_run, corpus, generation, file, snapshot, posted,
                   error_log>>

\* update(), lines 166-170: the loop calls add_timeline for one more follower.
AddTimeline ==
    /\ pc = "update"
    /\ \E result \in TimelineResults :
          /\ timeline' = result
          /\ state' = add_timeline(state, result)
    /\ pre' = state
    /\ pc' = "added"
    /\ calls' = calls \cup {"add_timeline", "GetUserTimeline"}
    /\ UNCHANGED <<dry_run, limit, generation, file, snapshot, posted, exc,
                   error_log>>

\* add_timeline has returned: back to the head of the loop.
NextFollower ==
    /\ pc = "added"
    /\ pc' = "update"
    /\ timeline' = NoTimeline
    /\ pre' = state
    /\ UNCHANGED <<dry_run, state, limit, generation, file, snapshot, posted,
                   calls, exc, error_log>>

\* update() returns: no follower is left.
UpdateDone ==
    /\ pc = "update"
    /\ pc' = "save"
    /\ UNCHANGED <<dry_run, corpus, generation, file, snapshot, posted, calls,
                   exc, error_log>>

(***************************************************************************)
(* save_state(limit), in the steps a crash can fall between: the trim, the *)
(* open for writing (which truncates) and the writes of pickle.dump, of    *)
(* which the last is followed by the close.                                *)
(***************************************************************************)
SaveTrim ==
    /\ pc = "save"
    /\ \E lim \in 0..MaxLimit :
          /\ limit' = lim
          /\ state' = _trim_state(state, lim)
    /\ pre' = state
    /\ snapshot' = file
    /\ pc' = "save_open"
    /\ calls' = calls \cup {"save_state"}
    /\ UNCHANGED <<dry_run, timeline, generation, file, posted, exc, error_log>>

SaveOpen ==
    /\ pc = "save_open"
    /\ file' = [exists |-> TRUE, data |-> << >>]
    /\ pc' = "save_write"
    /\ UNCHANGED <<dry_run, corpus, generation, snapshot, posted, calls, exc,
                   error_log>>

SaveWrite ==
    /\ pc = "save_write"
    /\ \E n \in (Len(file.data) + 1)..Len(Pickle(state)) :
          /\ file' = [exists |-> TRUE, data |-> SubSeq(Pickle(state), 1, n)]
          /\ pc' = IF n = Len(Pickle(state)) THEN "saved" ELSE "save_write"
    /\ UNCHANGED <<dry_run, corpus, generation, snapshot, posted, calls, exc,
                   error_log>>

\* save_state has returned.
SaveDone ==
    /\ pc = "saved"
    /\ pc' = "tweet"
    /\ limit' = 0
    /\ pre' = state
    /\ snapshot' = NoFile
    /\ UNCHANGED <<dry_run, state, timeline, generation, file, posted, calls,
                   exc, error_log>>

\* The process is killed inside save_state.
Crash ==
    /\ pc \in {"save_open", "save_write"}
    /\ pc' = "crashed"
    /\ UNCHANGED <<dry_run, corpus, generation, file, snapshot, posted, calls,
                   exc, error_log>>

(***************************************************************************)
(* main(), lines 314-326: the text to post is --status or the first of     *)
(* generate_tweets; it is posted unless --dry-run.                         *)
(***************************************************************************)
ChooseTweet ==
    /\ pc = "tweet"
    /\ \E u \in UserTweets :
          /\ usertweet' = u
          /\ IF TextIsTrue(u)
             THEN tweet' = u /\ pc' = "post"
             ELSE tweet' = tweet /\ pc' = "generate"
    /\ UNCHANGED <<dry_run, corpus, language, shuffled_ids, input, blob, chunks,
                   tweets, file, snapshot, posted, calls, exc, error_log>>

\* generate_tweets(opts.language), lines 75-86.
generate_tweets ==
    /\ pc = "generate"
    /\ pre' = state
    /\ \E lang \in Languages :
          /\ language' = lang
          /\ IF LanguageRejected(lang)
             THEN /\ Raise("DoadDoadError")
                  /\ calls' = calls \cup {"generate_tweets"}
                  /\ UNCHANGED <<shuffled_ids, input, blob, chunks, tweets>>
             ELSE \E ids \in Shuffles(DOMAIN state), out \in Blobs :
                  /\ shuffled_ids' = ids
                  /\ input' = _dadadodo_input(state, ids, lang)
                  /\ blob' = out
                  /\ chunks' = WrappedChunks(out)
                  /\ tweets' = _extract_tweets(out)
                  /\ calls' = calls \cup {"generate_tweets", "shuffle", "dadadodo"}
                  /\ pc' = "check"
                  /\ exc' = exc
    /\ UNCHANGED <<dry_run, state, timeline, limit, usertweet, tweet, file,
                   snapshot, posted, error_log>>

\* Lines 318-321: "if not tweet" tests the generator object, then next().
CheckTweet ==
    /\ pc = "check"
    /\ IF ~GeneratorIsTrue(tweets)
       THEN /\ error_log' = Append(error_log, "didn't get a tweet to post!")
            /\ pc' = "return1"
            /\ UNCHANGED <<tweet, exc>>
       ELSE IF tweets = << >>
            THEN Raise("StopIteration") /\ UNCHANGED <<tweet, error_log>>
            ELSE /\ tweet' = Head(tweets)
                 /\ pc' = "post"
                 /\ UNCHANGED <<exc, error_log>>
    /\ UNCHANGED <<dry_run, corpus, language, usertweet, shuffled_ids, input,
                   blob, chunks, tweets, file, snapshot, posted, calls>>

\* Lines 323-326.  A TwitterError of PostUpdate is not caught.
PostUpdate ==
    /\ pc = "post"
    /\ IF dry_run
       THEN pc' = "done" /\ UNCHANGED <<posted, calls, exc>>
       ELSE /\ calls' = calls \cup {"PostUpdate"}
            /\ \E fails \in BOOLEAN :
                  IF fails
                  THEN Raise("TwitterError") /\ posted' = posted
                  ELSE pc' = "done" /\ posted' = Append(posted, tweet)
                       /\ exc' = exc
    /\ UNCHANGED <<dry_run, corpus, generation, file, snapshot, error_log>>

Terminal == {"done", "return1", "raised", "crashed"}

\* The next run: a new process, the same state file.
Restart ==
    /\ pc \in Terminal
    /\ pc' = "start"
    /\ state' = EmptyState
    /\ pre' = EmptyState
    /\ snapshot' = NoFile
    /\ timeline' = NoTimeline
    /\ limit' = 0
    /\ language' = "None"
    /\ usertweet' = << >>
    /\ shuffled_ids' = << >>
    /\ input' = << >>
    /\ blob' = << >>
    /\ chunks' = << >>
    /\ tweets' = << >>
    /\ tweet' = << >>
    /\ posted' = << >>
    /\ calls' = {}
    /\ exc' = ""
    /\ error_log' = << >>
    /\ UNCHANGED <<dry_run, file>>

Next ==
    \/ Construct
    \/ load_state
    \/ RefreshCheck
    \/ Followback
    \/ AddTimeline
    \/ NextFollower
    \/ UpdateDone
    \/ SaveTrim
    \/ SaveOpen
    \/ SaveWrite
    \/ SaveDone
    \/ Crash
    \/ ChooseTweet
    \/ generate_tweets
    \/ CheckTweet
    \/ PostUpdate
    \/ Restart

Spec == Init /\ [][Next]_vars

(***************************************************************************)
(* The text pipeline on every blob of at most MaxBlobLen characters and on *)
(* the documented chunk: _extract_tweets on the blob, and _fix_rt on the   *)
(* blob taken as a chunk.                                                  *)
(***************************************************************************)
Alphabet == {"a", "R", "t", "@", " ", "\n"}

\* The chunk the retweet repair is documented with, and its repair.
ExampleChunk == <<"h", "e", "l", "l", "o", " ", "w", "o", "r", "l", "d", " ", "R", "T", " ", "@", "b", "o", "b", " ", "m", "o", "r", "e", " ", "t", "e", "x", "t">>

ExampleRepaired == <<"R", "T", " ", "@", "b", "o", "b", " ", "h", "e", "l", "l", "o", " ", "w", "o", "r", "l", "d", " ", "m", "o", "r", "e", " ", "t", "e", "x", "t">>

InitText ==
    /\ pc = "typing"
    /\ dry_run = TRUE
    /\ file = NoFile
    /\ FreshRun

text_frame == <<dry_run, state, file, pre, snapshot, timeline, limit, language,
                usertweet, shuffled_ids, input, posted, calls, exc, error_log>>

TypeChar ==
    /\ pc = "typing"
    /\ Len(blob) < MaxBlobLen
    /\ \E c \in Alphabet : blob' = Append(blob, c)
    /\ UNCHANGED <<pc, chunks, tweets, tweet, text_frame>>

\* The documented chunk as the blob.
TypeExample ==
    /\ pc = "typing"
    /\ blob = << >>
    /\ blob' = ExampleChunk
    /\ UNCHANGED <<pc, chunks, tweets, tweet, text_frame>>

ExtractTweets ==
    /\ pc = "typing"
    /\ chunks' = WrappedChunks(blob)
    /\ tweets' = _extract_tweets(blob)
    /\ pc' = "extracted"
    /\ UNCHANGED <<blob, tweet, text_frame>>

FixRt ==
    /\ pc = "typing"
    /\ tweet' = _fix_rt(blob)
    /\ pc' = "fixed"
    /\ UNCHANGED <<blob, chunks, tweets, text_frame>>

NextText == TypeChar \/ TypeExample \/ ExtractTweets \/ FixRt

SpecText == InitText /\ [][NextText]_vars

(***************************************************************************)
(* The claims.                                                             *)
(***************************************************************************)
\* C1 (Spec): after _trim_state(limit) in save_state, for a limit L > 0 the
\* corpus holds exactly min(L, n) of the n posts it held, they are the ones
\* with the largest ids, and each keeps its record; for L = 0 the corpus is
\* as it was.
C1_TrimKeepsLargest ==
    pc \in {"save_open", "save_write", "saved"} =>
        IF limit = 0 THEN state = pre
        ELSE /\ DOMAIN state \subseteq DOMAIN pre
             /\ Cardinality(DOMAIN state) =
                    Smaller(limit, Cardinality(DOMAIN pre))
             /\ \A kept \in DOMAIN state :
                    /\ state[kept] = pre[kept]
                    /\ \A gone \in DOMAIN pre \ DOMAIN state : gone < kept

\* A save that trimmed a corpus of three posts to the two with the largest ids.
C1_Witness ==
    /\ pc = "saved"
    /\ limit = 2
    /\ DOMAIN pre = {1, 2, 3}
    /\ DOMAIN state = {2, 3}

\* C2 (Spec): add_timeline never overwrites: every post the corpus held
\* keeps its record, and a post it did not hold gets the record of the first
\* status of the timeline with its id.
C2_InsertionNeverOverwrites ==
    pc = "added" =>
        /\ \A k \in DOMAIN pre : k \in DOMAIN state /\ state[k] = pre[k]
        /\ \A k \in DOMAIN state \ DOMAIN pre :
              \E i \in DOMAIN timeline.statuses :
                 /\ timeline.statuses[i].id = k
                 /\ \A j \in 1..(i - 1) : timeline.statuses[j].id # k
                 /\ state[k] = timeline.statuses[i]
        /\ \A i \in DOMAIN timeline.statuses :
              timeline.statuses[i].id \in DOMAIN state

\* A timeline that offered twice, with two texts, an id the corpus held.
C2_Witness ==
    /\ pc = "added"
    /\ Len(timeline.statuses) = 2
    /\ timeline.statuses[1].id = timeline.statuses[2].id
    /\ timeline.statuses[1].text # timeline.statuses[2].text
    /\ timeline.statuses[1].id \in DOMAIN pre

\* C3 (SpecText): every message _extract_tweets yields, a wrapped chunk
\* after _fix_rt, is no longer than TWEET_MAXLENGTH.
C3_TweetsFit ==
    pc = "extracted" =>
        \A i \in DOMAIN tweets : Len(tweets[i]) <= TWEET_MAXLENGTH

IsNonSpace(c) == ~IsSpace(c)

\* The characters of a text that are not separators.
NonSeparators(text) == SelectSeq(text, IsNonSpace)

\* C4 (SpecText): the chunks of the wrap, in order, hold every non-separator
\* character of the normalized blob once and in the blob's order, and an
\* empty blob gives no chunk.
C4_WrapCoversBlob ==
    pc = "extracted" =>
        /\ NonSeparators(Flatten(chunks)) = NonSeparators(NormalizeBlob(blob))
        /\ blob = << >> => chunks = << >>

\* A blob with a newline that is wrapped into several chunks.
C4_Witness ==
    /\ pc = "extracted"
    /\ Len(chunks) >= 2
    /\ \E i \in DOMAIN blob : blob[i] = "\n"

\* The ways to read a chunk as lead, RT, spaces, an optional "@", a handle
\* of non-whitespace, an optional space and a trail: the lead is text[1..i],
\* the spaces end before p, the handle is text[w..e], the trail text[t..m].
RtReadings(text) ==
    LET n == Len(text)
        starts == {i \in 0..(n - 4) : /\ text[i + 1] \in {"R", "r"}
                                      /\ text[i + 2] \in {"T", "t"}
                                      /\ text[i + 3] = " "
                                      /\ \A k \in 1..i : text[k] # "\n"}
        AfterSpaces(i) == {p \in (i + 4)..n :
                              \A k \in (i + 3)..(p - 1) : text[k] = " "}
        HandleStarts(p) == {w \in {p, p + 1} : w = p \/ text[p] = "@"}
        HandleEnds(w) == {e \in w..n : \A k \in w..e : ~IsSpace(text[k])}
        TrailStarts(e) == {t \in {e + 1, e + 2} :
                              t = e + 1 \/ (e + 1 <= n /\ text[e + 1] = " ")}
        TrailEnds(t) == {m \in {n - 1, n} :
                            /\ m = n \/ (t <= n /\ text[n] = "\n")
                            /\ \A k \in t..m : text[k] # "\n"}
    IN  UNION { UNION { UNION { UNION { UNION {
            {<<i, p, w, e, t, m>> : m \in TrailEnds(t)}
          : t \in TrailStarts(e)} : e \in HandleEnds(w)}
          : w \in HandleStarts(p)} : p \in AfterSpaces(i)} : i \in starts}

\* "RT @<handle> <lead><trail>", trimmed.
RtRepair(text, r) ==
    Strip(<<"R", "T", " ", "@">> \o SubSeq(text, r[3], r[4]) \o <<" ">>
          \o Slice(text, 1, r[1]) \o Slice(text, r[5], r[6]))

\* C5 (SpecText): _fix_rt rewrites a chunk of the form lead, RT, handle,
\* trail to "RT @<handle> <lead><trail>", trimmed; it returns a chunk that
\* is not of that form unchanged; and "hello world RT @bob more text"
\* becomes "RT @bob hello world more text".
C5_RetweetRepair ==
    pc = "fixed" =>
        /\ IF RtReadings(blob) = {} THEN tweet = blob
           ELSE \E r \in RtReadings(blob) : tweet = RtRepair(blob, r)
        /\ blob = ExampleChunk => tweet = ExampleRepaired

\* A chunk with a lead, "@" and a handle, repaired into another text.
C5_Witness ==
    /\ pc = "fixed"
    /\ blob = <<"a", "R", "t", " ", "@", "a">>
    /\ tweet = <<"R", "T", " ", "@", "a", " ", "a">>

\* A language filter that is given and is not a detectable language code.
UndetectableFilter == language \notin language_codes \cup {"None", ""}

\* C6 (Spec): generate_tweets with a language filter that is not a
\* detectable code raises DoadDoadError, with no shuffle of the corpus, no
\* run of the generator and the corpus as it was.
C6_LanguageValidated ==
    ("generate_tweets" \in calls /\ UndetectableFilter) =>
        /\ pc = "raised"
        /\ exc = "DoadDoadError"
        /\ "shuffle" \notin calls
        /\ "dadadodo" \notin calls
        /\ state = pre
        /\ input = << >>
        /\ tweets = << >>

\* The filter "xx" rejected on a corpus that holds posts.
C6_Witness ==
    /\ pc = "raised"
    /\ exc = "DoadDoadError"
    /\ language = "xx"
    /\ state # EmptyState

\* The ids of the posts the filter of generate_tweets selects.
EligibleIds ==
    {k \in DOMAIN state :
        language \in {"None", ""} \/ get_language_code(state[k]) = language}

\* C7 (Spec): _dadadodo_input yields one sanitized text per eligible post,
\* in some order of the eligible posts, and none for another post; the
\* corpus is not modified.
C7_InputSelection ==
    pc = "check" =>
        /\ Len(input) = Cardinality(EligibleIds)
        /\ \E order \in Shuffles(EligibleIds) :
              input = [i \in 1..Len(order) |-> Sanitize(state[order[i]].text)]
        /\ state = pre

\* The filter "en" on a corpus of an English post and another one.
C7_Witness ==
    /\ pc = "check"
    /\ language = "en"
    /\ Cardinality(DOMAIN state) = 2
    /\ input = <<Sanitize(TextHi)>>

\* C8 (Spec): after a crash inside save_state the state file is the
\* previous snapshot or the complete new one.
C8_CrashSafeSave ==
    pc = "crashed" =>
        \/ file = snapshot
        \/ file.exists /\ file.data = Pickle(state)

\* C9 (Spec): with --dry-run main never calls update, add_timeline,
\* CreateFriendship, save_state or PostUpdate, and the state file is never
\* written.
C9_DryRunChangesNothing ==
    /\ [](dry_run =>
            /\ calls \cap {"update", "add_timeline", "CreateFriendship",
                           "save_state", "PostUpdate"} = {}
            /\ posted = << >>)
    /\ [][dry_run => file' = file]_vars

\* A dry run that went to the end of main with no state file.
C9_Witness ==
    /\ dry_run
    /\ pc = "done"
    /\ ~file.exists
    /\ "dadadodo" \in calls
    /\ tweet # << >>

\* C10 (Spec): without --status, when generate_tweets yields nothing main
\* logs the error and returns 1 without PostUpdate; when it yields
\* something, the first message is posted, once.
C10_EmptyResultReported ==
    /\ (pc \in Terminal /\ "dadadodo" \in calls /\ tweets = << >>) =>
          /\ pc = "return1"
          /\ error_log = <<"didn't get a tweet to post!">>
          /\ "PostUpdate" \notin calls
    /\ (pc = "done" /\ "dadadodo" \in calls /\ ~dry_run) =>
          posted = <<Head(tweets)>>
    /\ Len(posted) <= 1

=============================================================================
